---- MODULE Spec2Model ----
(***************************************************************************)
(* BakeLang: the token stream of a source file is parsed by the recursive  *)
(* descent Parser into a Program (recipes, main), and Program.eval walks   *)
(* the tree against dict environments.  The model starts from the token     *)
(* stream tokenize() hands to the Parser and follows run_file: parse, then  *)
(* the registration pre-pass, then the main statements one at a time.       *)
(*                                                                          *)
(* Strings of the language are sequences of one-character strings, so that  *)
(* the empty string, concatenation, str() and int() are computed.           *)
(* Identifiers are atomic TLA+ strings.                                     *)
(***************************************************************************)
EXTENDS Integers, Sequences, FiniteSets, TLC

\* ------------------------------------------------------------------ bounds
MaxMain == 2        \* top-level statements of a generated program
MaxDepth == 2       \* nested recipe calls followed before the host stack gives up

\* ------------------------------------------------------------------ tokens
\* Token(type, value): value is an int (NUMBER), a str (STRING, ID, OP, symbols)
\* or None (EOF); the three are kept apart in the fields n, c and s.
Token(type_, s, n, c) == [type |-> type_, s |-> s, n |-> n, c |-> c]
ID(s) == Token("ID", s, 0, <<>>)
NUM(n) == Token("NUMBER", "", n, <<>>)
STR(c) == Token("STRING", "", 0, c)
OP(s) == Token("OP", s, 0, <<>>)
SYM(s) == Token(s, s, 0, <<>>)
EOF == Token("EOF", "", 0, <<>>)

\* The text of an identifier as characters (used where Python compares or
\* searches it as a str); the identifiers of the model that are ever looked
\* up in a str are the recipe names.
NameChars(s) == <<s>>

\* str.lower() on the identifier texts the model's programs use.
Lower(s) ==
  CASE s = "Mix" -> "mix"
    [] s = "Serve" -> "serve"
    [] s = "RECIPE" -> "recipe"
    [] s = "Make" -> "make"
    [] s = "Else" -> "else"
    [] OTHER -> s

\* tok.value == ch for a one-character str ch (parse_recipe, parse_make,
\* parse_block, parse_primary compare the value whatever the token's type).
ValueIs(tok, ch) ==
  CASE tok.type = "NUMBER" -> FALSE
    [] tok.type = "EOF" -> FALSE
    [] tok.type = "STRING" -> tok.c = <<ch>>
    [] OTHER -> tok.s = ch

\* ------------------------------------------------------------------ parser
None == "<None>"
Raise == [ok |-> FALSE, pos |-> 0, node |-> <<>>]
Ok(pos, node) == [ok |-> TRUE, pos |-> pos, node |-> node]

cur(toks, pos) == toks[pos]

eat(toks, pos, ttype, tval) ==
  LET tok == cur(toks, pos) IN
  IF tok.type = ttype /\ (tval = None \/ ValueIs(tok, tval))
  THEN Ok(pos + 1, tok)
  ELSE Raise

\* an exception propagates: the rest of a method runs only on what returned
Then(r, K(_)) == IF r.ok THEN K(r) ELSE Raise

RECURSIVE parse_expr(_, _)
RECURSIVE parse_eq_loop(_, _, _)
RECURSIVE parse_add(_, _)
RECURSIVE parse_add_loop(_, _, _)
RECURSIVE parse_mod(_, _)
RECURSIVE parse_mod_loop(_, _, _)
RECURSIVE parse_primary(_, _)
RECURSIVE parse_stmt(_, _)
RECURSIVE parse_block(_, _)
RECURSIVE parse_block_loop(_, _, _)
RECURSIVE parse_args_loop(_, _, _)
RECURSIVE parse_params_loop(_, _, _)
RECURSIVE parse_loop(_, _, _, _)

parse_primary(toks, pos) ==
  LET t == cur(toks, pos) IN
  CASE t.type = "NUMBER" -> Ok(pos + 1, [k |-> "Number", v |-> t.n])
    [] t.type = "STRING" -> Ok(pos + 1, [k |-> "String", v |-> t.c])
    [] t.type = "ID" -> Ok(pos + 1, [k |-> "Var", n |-> t.s])
    [] OTHER ->
       IF ValueIs(t, "(")
       THEN Then(eat(toks, pos, "(", None), LAMBDA a :
            Then(parse_expr(toks, a.pos), LAMBDA e :
            Then(eat(toks, e.pos, ")", None), LAMBDA b : Ok(b.pos, e.node))))
       ELSE Raise

BinOp(left, op, right) == [k |-> "BinOp", left |-> left, op |-> op, right |-> right]

parse_mod_loop(toks, pos, node) ==
  IF cur(toks, pos).type = "OP" /\ cur(toks, pos).s = "%"
  THEN Then(eat(toks, pos, "OP", None), LAMBDA op :
       Then(parse_primary(toks, op.pos), LAMBDA r :
            parse_mod_loop(toks, r.pos, BinOp(node, op.node.s, r.node))))
  ELSE Ok(pos, node)

parse_mod(toks, pos) ==
  Then(parse_primary(toks, pos), LAMBDA r : parse_mod_loop(toks, r.pos, r.node))

parse_add_loop(toks, pos, node) ==
  IF cur(toks, pos).type = "OP" /\ cur(toks, pos).s = "+"
  THEN Then(eat(toks, pos, "OP", None), LAMBDA op :
       Then(parse_mod(toks, op.pos), LAMBDA r :
            parse_add_loop(toks, r.pos, BinOp(node, op.node.s, r.node))))
  ELSE Ok(pos, node)

parse_add(toks, pos) ==
  Then(parse_mod(toks, pos), LAMBDA r : parse_add_loop(toks, r.pos, r.node))

parse_eq_loop(toks, pos, node) ==
  IF cur(toks, pos).type = "OP" /\ cur(toks, pos).s = "=="
  THEN Then(eat(toks, pos, "OP", None), LAMBDA op :
       Then(parse_add(toks, op.pos), LAMBDA r :
            parse_eq_loop(toks, r.pos, BinOp(node, op.node.s, r.node))))
  ELSE Ok(pos, node)

parse_eq(toks, pos) ==
  Then(parse_add(toks, pos), LAMBDA r : parse_eq_loop(toks, r.pos, r.node))

parse_expr(toks, pos) == parse_eq(toks, pos)

parse_block_loop(toks, pos, stmts) ==
  IF ~ValueIs(cur(toks, pos), "}")
  THEN Then(parse_stmt(toks, pos), LAMBDA r :
            parse_block_loop(toks, r.pos, Append(stmts, r.node)))
  ELSE Ok(pos, stmts)

parse_block(toks, pos) ==
  Then(eat(toks, pos, "{", None), LAMBDA a :
  Then(parse_block_loop(toks, a.pos, <<>>), LAMBDA l :
  Then(eat(toks, l.pos, "}", None), LAMBDA b : Ok(b.pos, l.node))))

IngredientDecl(name, type_) == [k |-> "IngredientDecl", name |-> name, type_ |-> type_]

parse_decl(toks, pos) ==
  Then(eat(toks, pos, "ID", None), LAMBDA a :
  Then(eat(toks, a.pos, "ID", None), LAMBDA name :
  Then(eat(toks, name.pos, ":", None), LAMBDA c :
  Then(eat(toks, c.pos, "ID", None), LAMBDA t :
  Then(eat(toks, t.pos, ";", None), LAMBDA s :
       Ok(s.pos, IngredientDecl(name.node.s, t.node.s)))))))

MixStmt(expr, target) == [k |-> "MixStmt", expr |-> expr, target |-> target]

parse_mix(toks, pos) ==
  Then(eat(toks, pos, "ID", None), LAMBDA a :
  Then(parse_expr(toks, a.pos), LAMBDA e :
  Then(eat(toks, e.pos, "ID", None), LAMBDA into :
  Then(eat(toks, into.pos, "ID", None), LAMBDA targ :
  Then(eat(toks, targ.pos, ";", None), LAMBDA s :
       Ok(s.pos, MixStmt(e.node, targ.node.s)))))))

ServeStmt(expr) == [k |-> "ServeStmt", expr |-> expr]

parse_serve(toks, pos) ==
  Then(eat(toks, pos, "ID", None), LAMBDA a :
  Then(parse_expr(toks, a.pos), LAMBDA e :
  Then(eat(toks, e.pos, ";", None), LAMBDA s : Ok(s.pos, ServeStmt(e.node)))))

AskStmt(prompt, target) == [k |-> "AskStmt", expr |-> prompt, target |-> target]

parse_ask(toks, pos) ==
  Then(eat(toks, pos, "ID", None), LAMBDA a :
  Then(parse_expr(toks, a.pos), LAMBDA prompt :
  Then(eat(toks, prompt.pos, "ID", None), LAMBDA into :
  Then(eat(toks, into.pos, "ID", None), LAMBDA name :
  Then(eat(toks, name.pos, ";", None), LAMBDA s :
       Ok(s.pos, AskStmt(prompt.node, name.node.s)))))))

\* else_s = None is hasElse = FALSE
IfStmt(cond, then_s, else_s, hasElse) ==
  [k |-> "IfStmt", cond |-> cond, then_s |-> then_s, else_s |-> else_s, hasElse |-> hasElse]

parse_if(toks, pos) ==
  Then(eat(toks, pos, "ID", None), LAMBDA a :
  Then(eat(toks, a.pos, "(", None), LAMBDA p :
  Then(parse_expr(toks, p.pos), LAMBDA cond :
  Then(eat(toks, cond.pos, ")", None), LAMBDA q :
  Then(eat(toks, q.pos, "ID", None), LAMBDA then :
  Then(parse_block(toks, then.pos), LAMBDA then_b :
       IF cur(toks, then_b.pos).type = "ID" /\ Lower(cur(toks, then_b.pos).s) = "else"
       THEN Then(eat(toks, then_b.pos, "ID", None), LAMBDA e :
            Then(parse_block(toks, e.pos), LAMBDA else_b :
                 Ok(else_b.pos, IfStmt(cond.node, then_b.node, else_b.node, TRUE))))
       ELSE Ok(then_b.pos, IfStmt(cond.node, then_b.node, <<>>, FALSE))))))))

RepeatStmt(start, end, body) == [k |-> "RepeatStmt", start |-> start, end |-> end, body |-> body]

parse_repeat(toks, pos) ==
  Then(eat(toks, pos, "ID", None), LAMBDA a :
  Then(parse_expr(toks, a.pos), LAMBDA start :
  Then(eat(toks, start.pos, "ID", None), LAMBDA to :
  Then(parse_expr(toks, to.pos), LAMBDA end :
  Then(parse_block(toks, end.pos), LAMBDA body :
       Ok(body.pos, RepeatStmt(start.node, end.node, body.node)))))))

parse_args_loop(toks, pos, args) ==
  IF ValueIs(cur(toks, pos), ",")
  THEN Then(eat(toks, pos, ",", None), LAMBDA c :
       Then(parse_expr(toks, c.pos), LAMBDA e :
            parse_args_loop(toks, e.pos, Append(args, e.node))))
  ELSE Ok(pos, args)

parse_args(toks, pos) ==
  IF cur(toks, pos).type \in {"NUMBER", "STRING", "ID", "("}
  THEN Then(parse_expr(toks, pos), LAMBDA e : parse_args_loop(toks, e.pos, <<e.node>>))
  ELSE Ok(pos, <<>>)

MakeStmt(name, args) == [k |-> "MakeStmt", name |-> name, args |-> args]

parse_make(toks, pos) ==
  Then(eat(toks, pos, "ID", None), LAMBDA a :
  Then(eat(toks, a.pos, "ID", None), LAMBDA name :
  Then(eat(toks, name.pos, "(", None), LAMBDA p :
  Then(parse_args(toks, p.pos), LAMBDA args :
  Then(eat(toks, args.pos, ")", None), LAMBDA q :
  Then(eat(toks, q.pos, ";", None), LAMBDA s :
       Ok(s.pos, MakeStmt(name.node.s, args.node))))))))

parse_stmt(toks, pos) ==
  LET tok == cur(toks, pos)
      kw == Lower(tok.s) IN
  IF tok.type = "ID"
  THEN CASE kw \in {"mix", "fold"} -> parse_mix(toks, pos)
         [] kw = "serve" -> parse_serve(toks, pos)
         [] kw = "ask" -> parse_ask(toks, pos)
         [] kw = "if" -> parse_if(toks, pos)
         [] kw = "repeat" -> parse_repeat(toks, pos)
         [] kw = "make" -> parse_make(toks, pos)
         [] kw = "ingredient" -> parse_decl(toks, pos)
         [] OTHER -> Raise
  ELSE Raise

parse_params_loop(toks, pos, params) ==
  IF ValueIs(cur(toks, pos), ",")
  THEN Then(eat(toks, pos, ",", None), LAMBDA c :
       Then(eat(toks, c.pos, "ID", None), LAMBDA p :
            parse_params_loop(toks, p.pos, Append(params, p.node.s))))
  ELSE Ok(pos, params)

parse_params(toks, pos) ==
  IF cur(toks, pos).type = "ID"
  THEN Then(eat(toks, pos, "ID", None), LAMBDA p : parse_params_loop(toks, p.pos, <<p.node.s>>))
  ELSE Ok(pos, <<>>)

RecipeDef(name, params, body) ==
  [k |-> "RecipeDef", name |-> name, params |-> params, body |-> body]

parse_recipe(toks, pos) ==
  Then(eat(toks, pos, "ID", None), LAMBDA a :
  Then(eat(toks, a.pos, "ID", None), LAMBDA name :
  Then(eat(toks, name.pos, "(", None), LAMBDA p :
  Then(parse_params(toks, p.pos), LAMBDA params :
  Then(eat(toks, params.pos, ")", None), LAMBDA q :
  Then(parse_block(toks, q.pos), LAMBDA body :
       Ok(body.pos, RecipeDef(name.node.s, params.node, body.node))))))))

Program(recipes_, main_) == [recipes |-> recipes_, main |-> main_]

\* Parser.parse: recipe definitions are collected apart from the other
\* top-level statements, each list in textual order.
parse_loop(toks, pos, recipes_, main_) ==
  IF cur(toks, pos).type # "EOF"
  THEN IF cur(toks, pos).type = "ID" /\ Lower(cur(toks, pos).s) = "recipe"
       THEN Then(parse_recipe(toks, pos), LAMBDA r :
                 parse_loop(toks, r.pos, Append(recipes_, r.node), main_))
       ELSE Then(parse_stmt(toks, pos), LAMBDA r :
                 parse_loop(toks, r.pos, recipes_, Append(main_, r.node)))
  ELSE Ok(pos, Program(recipes_, main_))

parse(toks) == parse_loop(toks, 1, <<>>, <<>>)

\* ------------------------------------------------------------------ values
\* A value is an int, a str, None (the sentinel of `ingredient`) or the dict
\* Program.eval creates for the recipes (one object, held by reference; its
\* contents are the variable `recipes`).
IntV(n) == [t |-> "int", n |-> n, c |-> <<>>]
StrV(c) == [t |-> "str", n |-> 0, c |-> c]
NoneV == [t |-> "none", n |-> 0, c |-> <<>>]
TabV == [t |-> "tab", n |-> 0, c |-> <<>>]

EmptyDict == [x \in {} |-> NoneV]

\* env[name] = v on a dict
Store(env, name, v) == [x \in DOMAIN env \cup {name} |-> IF x = name THEN v ELSE env[x]]

Digit(d) == CASE d = 0 -> "0" [] d = 1 -> "1" [] d = 2 -> "2" [] d = 3 -> "3" [] d = 4 -> "4"
              [] d = 5 -> "5" [] d = 6 -> "6" [] d = 7 -> "7" [] d = 8 -> "8" [] d = 9 -> "9"

RECURSIVE Decimal(_)
Decimal(n) == IF n < 10 THEN <<Digit(n)>> ELSE Decimal(n \div 10) \o <<Digit(n % 10)>>

\* str(v) as print, input and '+' use it.  The repr of a non-empty recipes
\* dict holds object addresses; it is the one character "@" here.
str(v, tab) ==
  CASE v.t = "int" -> IF v.n < 0 THEN <<"-">> \o Decimal(-v.n) ELSE Decimal(v.n)
    [] v.t = "str" -> v.c
    [] v.t = "none" -> <<"N", "o", "n", "e">>
    [] v.t = "tab" -> IF DOMAIN tab = {} THEN <<"{", "}">> ELSE <<"{", "@", "}">>

DigitVal(ch) == CASE ch = "0" -> 0 [] ch = "1" -> 1 [] ch = "2" -> 2 [] ch = "3" -> 3
                  [] ch = "4" -> 4 [] ch = "5" -> 5 [] ch = "6" -> 6 [] ch = "7" -> 7
                  [] ch = "8" -> 8 [] ch = "9" -> 9 [] OTHER -> -1

RECURSIVE strip(_)
strip(c) ==
  IF c # <<>> /\ Head(c) = " " THEN strip(Tail(c))
  ELSE IF c # <<>> /\ c[Len(c)] = " " THEN strip(SubSeq(c, 1, Len(c) - 1))
  ELSE c

RECURSIVE DigitsValue(_, _)
DigitsValue(c, acc) ==
  IF c = <<>> THEN acc ELSE DigitsValue(Tail(c), 10 * acc + DigitVal(Head(c)))

\* int(raw): surrounding blanks dropped, an optional sign, then digits only
int(raw) ==
  LET s == strip(raw)
      signed == s # <<>> /\ Head(s) \in {"-", "+"}
      d == IF signed THEN Tail(s) ELSE s IN
  IF d # <<>> /\ \A j \in 1..Len(d) : DigitVal(d[j]) >= 0
  THEN [ok |-> TRUE, n |-> IF signed /\ Head(s) = "-" THEN -DigitsValue(d, 0)
                           ELSE DigitsValue(d, 0)]
  ELSE [ok |-> FALSE, n |-> 0]

\* a in b for two str
IsSubstr(a, b) ==
  \E j \in 0..(Len(b) - Len(a)) : SubSeq(b, j + 1, j + Len(a)) = a

\* Python's a % b for ints, b # 0: the result takes the sign of b
PyMod(a, b) == IF b > 0 THEN a % b ELSE -((-a) % (-b))

\* ------------------------------------------------------------------ expressions
Val(v) == [ok |-> TRUE, v |-> v, err |-> ""]
Err(e) == [ok |-> FALSE, v |-> NoneV, err |-> e]

\* Var.eval
Var_eval(n, env) ==
  IF n \notin DOMAIN env \/ env[n] = NoneV
  THEN Err("UndefinedVariable")
  ELSE Val(env[n])

\* BinOp.eval once both operands are values
Apply(op, a, b, tab) ==
  CASE op = "+" ->
         IF a.t = "str" \/ b.t = "str" THEN Val(StrV(str(a, tab) \o str(b, tab)))
         ELSE IF a.t = "int" /\ b.t = "int" THEN Val(IntV(a.n + b.n))
         ELSE Err("TypeError")
    [] op = "%" ->
         IF a.t = "int" /\ b.t = "int"
         THEN IF b.n = 0 THEN Err("ZeroDivisionError") ELSE Val(IntV(PyMod(a.n, b.n)))
         ELSE IF a.t = "str" /\ b.t = "tab" /\ "%" \notin {a.c[j] : j \in 1..Len(a.c)}
         THEN Val(a)
         ELSE Err("TypeError")
    [] op = "==" -> Val(IntV(IF a = b THEN 1 ELSE 0))
    [] OTHER -> Err("SyntaxError")

RECURSIVE Eval(_, _, _)
Eval(e, env, tab) ==
  CASE e.k = "Number" -> Val(IntV(e.v))
    [] e.k = "String" -> Val(StrV(e.v))
    [] e.k = "Var" -> Var_eval(e.n, env)
    [] e.k = "BinOp" ->
         LET a == Eval(e.left, env, tab) IN
         IF ~a.ok THEN a
         ELSE LET b == Eval(e.right, env, tab) IN
              IF ~b.ok THEN b ELSE Apply(e.op, a.v, b.v, tab)

\* the truth value `if` takes of a value
Truthy(v, tab) ==
  CASE v.t = "int" -> v.n # 0
    [] v.t = "str" -> v.c # <<>>
    [] v.t = "tab" -> DOMAIN tab # {}
    [] OTHER -> FALSE

\* ------------------------------------------------------------------ programs
\* The source texts the model runs, as the token streams tokenize() returns
\* for them (an ID per name or keyword, the symbol itself as the type of a
\* symbol token, "" lexed by the STR pattern as a STRING with the empty value).
S_mix == <<ID("mix"), NUM(2), ID("into"), ID("x"), SYM(";")>>
S_clobber == <<ID("Mix"), STR(<<>>), ID("into"), ID("__recipes__"), SYM(";")>>
S_fold == <<ID("fold"), STR(<<>>), ID("into"), ID("x"), SYM(";")>>
S_decl == <<ID("ingredient"), ID("x"), SYM(":"), ID("Number"), SYM(";")>>
S_serve == <<ID("Serve"), ID("x"), SYM(";")>>
S_serve_tab == <<ID("serve"), ID("__recipes__"), SYM(";")>>
S_ask == <<ID("ask"), STR(<<>>), ID("into"), ID("x"), SYM(";")>>
S_if == <<ID("if"), SYM("("), ID("x"), SYM(")"), ID("then"), SYM("{"),
          ID("serve"), NUM(1), SYM(";"), SYM("}"),
          ID("Else"), SYM("{"), ID("serve"), NUM(0), SYM(";"), SYM("}")>>
S_if_str == <<ID("if"), SYM("("), STR(<<"0">>), SYM(")"), ID("then"), SYM("{"),
              ID("serve"), STR(<<"a">>), OP("+"), NUM(1), SYM(";"), SYM("}")>>
S_repeat == <<ID("repeat"), NUM(1), ID("to"), NUM(3), SYM("{"),
              ID("serve"), ID("i"), SYM(";"), SYM("}")>>
S_repeat_down == <<ID("repeat"), NUM(5), ID("to"), NUM(1), SYM("{"),
                   ID("serve"), ID("i"), SYM(";"), SYM("}")>>
S_repeat_var == <<ID("repeat"), NUM(1), ID("to"), ID("x"), SYM("{"),
                  ID("mix"), NUM(7), ID("into"), ID("i"), SYM(";"),
                  ID("mix"), NUM(0), ID("into"), ID("x"), SYM(";"), SYM("}")>>
S_repeat_nest == <<ID("repeat"), NUM(1), ID("to"), NUM(2), SYM("{"),
                   ID("repeat"), NUM(5), ID("to"), NUM(5), SYM("{"), SYM("}"),
                   ID("serve"), ID("i"), SYM(";"), SYM("}")>>
S_make == <<ID("Make"), ID("F"), SYM("("), ID("x"), SYM(")"), SYM(";")>>
S_make_a == <<ID("make"), ID("F"), SYM("("), ID("a"), OP("+"), NUM(1), SYM(")"), SYM(";")>>
S_make0 == <<ID("make"), ID("F"), SYM("("), SYM(")"), SYM(";")>>
S_make2 == <<ID("make"), ID("F"), SYM("("), NUM(2), SYM(","), NUM(7), OP("%"), NUM(2),
              SYM(")"), SYM(";")>>
\* the same statements with another identifier where the keyword stands
W_mix == <<ID("mix"), NUM(2), ID("onto"), ID("x"), SYM(";")>>
W_ask == <<ID("ask"), STR(<<>>), ID("onto"), ID("x"), SYM(";")>>
W_repeat == <<ID("repeat"), NUM(1), ID("til"), NUM(1), SYM("{"), SYM("}")>>
W_if == <<ID("if"), SYM("("), NUM(1), SYM(")"), ID("than"), SYM("{"), SYM("}")>>
\* a statement with its ';' missing
W_semi == <<ID("serve"), NUM(1)>>

WrongKeyword == {W_mix, W_ask, W_repeat, W_if}

StmtPool ==
  {S_mix, S_fold, S_clobber, S_decl, S_serve, S_serve_tab, S_ask, S_if, S_if_str, S_repeat,
   S_repeat_down, S_repeat_var, S_repeat_nest, S_make, S_make0, S_make2, W_semi}
    \cup WrongKeyword

BodyPool ==
  {S_mix, S_clobber, S_decl, S_serve, S_serve_tab, S_ask, S_repeat, S_make_a, S_make0}

RecipeOf(params, stmts) ==
  <<ID("RECIPE"), ID("F"), SYM("(")>> \o params \o <<SYM(")"), SYM("{")>> \o stmts \o <<SYM("}")>>

RecipePool ==
  {RecipeOf(<<ID("a")>>, b) : b \in BodyPool}
    \cup {RecipeOf(<<ID("__recipes__")>>, S_make0),
          RecipeOf(<<ID("a"), SYM(","), ID("x")>>, S_decl \o S_serve),
          RecipeOf(<<ID("a"), SYM(","), ID("a")>>, S_serve),
          RecipeOf(<<>>, <<>>)}

\* statements that set the environment up for the statement under study
SetupPool == {S_mix, S_fold, S_clobber, S_decl, S_ask}

RECURSIVE Setups(_)
Setups(n) ==
  IF n = 0 THEN {<<>>}
  ELSE Setups(n - 1) \cup {m \o st : m \in Setups(n - 1), st \in SetupPool}

\* at most n top-level statements: setup statements, then any statement
Mains(n) ==
  IF n = 0 THEN {<<>>}
  ELSE {<<>>} \cup {m \o st : m \in Setups(n - 1), st \in StmtPool}

\* a program: at most MaxMain top-level statements, with at most one recipe
\* definition, before them or after them
Sources ==
  {m \o <<EOF>> : m \in Mains(MaxMain)}
    \cup {r \o m \o <<EOF>> : r \in RecipePool, m \in Mains(MaxMain)}
    \cup {m \o r \o <<EOF>> : r \in RecipePool, m \in Mains(MaxMain)}

\* the lines the input collaborator may supply to one `ask`; EndOfInput is
\* the closed stream
InputLines == {<<"0">>, <<>>, <<"a">>}
EndOfInput == <<"<EOF>">>

\* ------------------------------------------------------------------ state
VARIABLES
  tokens,    \* the token stream handed to Parser
  phase,     \* "parse", "parsed", "run", "done", "aborted"
  program,   \* Program(recipes, main) once parsed
  regs,      \* recipe definitions the pre-pass has still to evaluate
  recipes,   \* the contents of the dict created as env['__recipes__']
  envs,      \* the live dicts: envs[1] is Program.eval's env, then one `local` per call
  stack,     \* the evaluator's position: one frame per active MakeStmt.eval
  out,       \* what was written to standard output
  consumed,  \* the number of input lines read
  err,       \* the exception that ended the run
  ev         \* what the last step did (history)

vars == <<tokens, phase, program, regs, recipes, envs, stack, out, consumed, err, ev>>

NoEv == [k |-> "none"]
NoProgram == [recipes |-> <<>>, main |-> <<>>]

Block(stmts) ==
  [k |-> "block", stmts |-> stmts, nxt |-> 0, stop |-> 0,
   lo |-> 0, hi |-> 0, iters |-> <<>>, dirty |-> FALSE, end |-> <<>>]
Loop(lo, hi, stop, body, end) ==
  [k |-> "loop", stmts |-> body, nxt |-> lo, stop |-> stop,
   lo |-> lo, hi |-> hi, iters |-> <<>>, dirty |-> FALSE, end |-> end]
Frame(env, body, saved) == [env |-> env, ctl |-> <<Block(body)>>, saved |-> saved]

Init ==
  /\ tokens \in Sources
  /\ phase = "parse"
  /\ program = NoProgram
  /\ regs = <<>>
  /\ recipes = EmptyDict
  /\ envs = <<>>
  /\ stack = <<>>
  /\ out = <<>>
  /\ consumed = 0
  /\ err = ""
  /\ ev = NoEv

\* run_file: Parser(tokenize(code)).parse()
Parse ==
  /\ phase = "parse"
  /\ LET r == parse(tokens) IN
     IF r.ok
     THEN /\ program' = r.node
          /\ phase' = "parsed"
          /\ err' = err
     ELSE /\ program' = program
          /\ phase' = "aborted"
          /\ err' = "ParseError"
  /\ ev' = NoEv
  /\ UNCHANGED <<tokens, regs, recipes, envs, stack, out, consumed>>

\* Program.eval, line 47: env = {'__recipes__': {}}
ProgramEval ==
  /\ phase = "parsed"
  /\ phase' = "run"
  /\ envs' = <<("__recipes__" :> TabV)>>
  /\ recipes' = EmptyDict
  /\ regs' = program.recipes
  /\ stack' = <<Frame(1, program.main, EmptyDict)>>
  /\ ev' = NoEv
  /\ UNCHANGED <<tokens, program, out, consumed, err>>

\* RecipeDef.eval on the next recipe of the pre-pass
RecipeDef_eval ==
  /\ phase = "run"
  /\ regs # <<>>
  /\ LET r == Head(regs) IN
     IF envs[1]["__recipes__"] = TabV
     THEN /\ recipes' = Store(recipes, r.name, [params |-> r.params, body |-> r.body])
          /\ regs' = Tail(regs)
          /\ UNCHANGED <<phase, err>>
     ELSE /\ phase' = "aborted"
          /\ err' = "TypeError"
          /\ UNCHANGED <<recipes, regs>>
  /\ ev' = NoEv
  /\ UNCHANGED <<tokens, program, envs, stack, out, consumed>>

Running == phase = "run" /\ regs = <<>> /\ stack # <<>>
Top == stack[Len(stack)]
Item == Top.ctl[Len(Top.ctl)]
AtStmt == Running /\ Top.ctl # <<>> /\ Item.k = "block" /\ Item.stmts # <<>>
CurStmt == Head(Item.stmts)
Env == envs[Top.env]

\* the frame's position moved past the statement it is at
Advanced == [Top.ctl EXCEPT ![Len(Top.ctl)].stmts = Tail(@)]
WithCtl(ctl) == [stack EXCEPT ![Len(stack)].ctl = ctl]

Abort(e, event) ==
  /\ phase' = "aborted"
  /\ err' = e
  /\ ev' = event
  /\ UNCHANGED <<tokens, program, regs, recipes, envs, stack, out, consumed>>

\* IngredientDecl.eval
DoDecl ==
  /\ AtStmt /\ CurStmt.k = "IngredientDecl"
  /\ envs' = [envs EXCEPT ![Top.env] = Store(@, CurStmt.name, NoneV)]
  /\ stack' = WithCtl(Advanced)
  /\ ev' = NoEv
  /\ UNCHANGED <<tokens, phase, program, regs, recipes, out, consumed, err>>

\* MixStmt.eval
DoMix ==
  /\ AtStmt /\ CurStmt.k = "MixStmt"
  /\ LET r == Eval(CurStmt.expr, Env, recipes) IN
     IF r.ok
     THEN /\ envs' = [envs EXCEPT ![Top.env] = Store(@, CurStmt.target, r.v)]
          /\ stack' = WithCtl(Advanced)
          /\ ev' = NoEv
          /\ UNCHANGED <<tokens, phase, program, regs, recipes, out, consumed, err>>
     ELSE Abort(r.err, NoEv)

\* ServeStmt.eval
DoServe ==
  /\ AtStmt /\ CurStmt.k = "ServeStmt"
  /\ LET r == Eval(CurStmt.expr, Env, recipes) IN
     IF r.ok
     THEN /\ out' = Append(out, [k |-> "line", text |-> str(r.v, recipes)])
          /\ stack' = WithCtl(Advanced)
          /\ ev' = [k |-> "serve", v |-> r.v]
          /\ UNCHANGED <<tokens, phase, program, regs, recipes, envs, consumed, err>>
     ELSE Abort(r.err, NoEv)

\* AskStmt.eval: the prompt is written, then a line is read
DoAsk ==
  /\ AtStmt /\ CurStmt.k = "AskStmt"
  /\ LET p == Eval(CurStmt.expr, Env, recipes) IN
     IF p.ok
     THEN \E raw \in InputLines \cup {EndOfInput} :
            /\ out' = Append(out, [k |-> "prompt", text |-> str(p.v, recipes) \o <<" ">>])
            /\ IF raw = EndOfInput
               THEN /\ phase' = "aborted"
                    /\ err' = "EOFError"
                    /\ UNCHANGED <<envs, stack, consumed>>
               ELSE /\ envs' = [envs EXCEPT ![Top.env] =
                                  Store(@, CurStmt.target,
                                        IF int(raw).ok THEN IntV(int(raw).n) ELSE StrV(raw))]
                    /\ stack' = WithCtl(Advanced)
                    /\ consumed' = consumed + 1
                    /\ UNCHANGED <<phase, err>>
            /\ ev' = NoEv
            /\ UNCHANGED <<tokens, program, regs, recipes>>
     ELSE Abort(p.err, NoEv)

\* IfStmt.eval: which block runs
Branch(v, s, tab) ==
  IF Truthy(v, tab) THEN "then"
  ELSE IF s.hasElse /\ s.else_s # <<>> THEN "else"
  ELSE "none"

DoIf ==
  /\ AtStmt /\ CurStmt.k = "IfStmt"
  /\ LET c == Eval(CurStmt.cond, Env, recipes) IN
     IF c.ok
     THEN LET b == Branch(c.v, CurStmt, recipes) IN
          /\ stack' = WithCtl(CASE b = "then" -> Append(Advanced, Block(CurStmt.then_s))
                                [] b = "else" -> Append(Advanced, Block(CurStmt.else_s))
                                [] OTHER -> Advanced)
          /\ ev' = [k |-> "if", v |-> c.v, branch |-> b, hasElse |-> CurStmt.hasElse]
          /\ UNCHANGED <<tokens, phase, program, regs, recipes, envs, out, consumed, err>>
     ELSE Abort(c.err, NoEv)

\* range(lo, hi+1): the first value that is not iterated
RangeStopExclusive(hi) == hi
RangeStop(hi) == hi + 1

\* RepeatStmt.eval, line 89: both bounds are evaluated, then the range is built
DoRepeat ==
  /\ AtStmt /\ CurStmt.k = "RepeatStmt"
  /\ LET lo == Eval(CurStmt.start, Env, recipes) IN
     IF ~lo.ok THEN Abort(lo.err, NoEv)
     ELSE LET hi == Eval(CurStmt.end, Env, recipes) IN
          IF ~hi.ok THEN Abort(hi.err, NoEv)
          ELSE IF hi.v.t # "int" \/ lo.v.t # "int" THEN Abort("TypeError", NoEv)
          ELSE /\ stack' = WithCtl(Append(Advanced,
                              Loop(lo.v.n, hi.v.n, RangeStop(hi.v.n), CurStmt.body, CurStmt.end)))
               /\ ev' = NoEv
               /\ UNCHANGED <<tokens, phase, program, regs, recipes, envs, out, consumed, err>>

AtLoop == Running /\ Top.ctl # <<>> /\ Item.k = "loop"

\* the value the for statement takes next: the range iterator's, whatever
\* the body did to env['i']
LoopIndexFromEnv(item, env) ==
  IF item.iters # <<>> /\ "i" \in DOMAIN env /\ env["i"].t = "int"
  THEN env["i"].n + 1
  ELSE item.nxt
LoopIndex(item, env) == item.nxt

\* one turn of `for i in range(lo, hi+1)`: env['i'] = i, then the body
LoopIter ==
  /\ AtLoop
  /\ LET idx == LoopIndex(Item, Env) IN
     /\ idx < Item.stop
     /\ envs' = [envs EXCEPT ![Top.env] = Store(@, "i", IntV(idx))]
     /\ stack' = WithCtl(Append(
                   [Top.ctl EXCEPT ![Len(Top.ctl)] =
                      [@ EXCEPT !.nxt = idx + 1,
                                !.iters = Append(@, envs'[Top.env]["i"]),
                                !.dirty = @ \/ (Item.iters # <<>>
                                                  /\ Env["i"] # Item.iters[Len(Item.iters)])]],
                   Block(Item.stmts)))
     /\ ev' = [k |-> "iter", idx |-> idx]
  /\ UNCHANGED <<tokens, phase, program, regs, recipes, out, consumed, err>>

\* the range is exhausted
LoopExit ==
  /\ AtLoop
  /\ LoopIndex(Item, Env) >= Item.stop
  /\ stack' = WithCtl(SubSeq(Top.ctl, 1, Len(Top.ctl) - 1))
  /\ ev' = [k |-> "loopexit", lo |-> Item.lo, hi |-> Item.hi, iters |-> Item.iters,
            dirty |-> Item.dirty \/ (Item.iters # <<>> /\ Env["i"] # Item.iters[Len(Item.iters)]),
            endNow |-> Eval(Item.end, Env, recipes)]
  /\ UNCHANGED <<tokens, phase, program, regs, recipes, envs, out, consumed, err>>

\* the end of a then/else block or of a loop body
BlockEnd ==
  /\ Running /\ Top.ctl # <<>> /\ Item.k = "block" /\ Item.stmts = <<>>
  /\ Len(Top.ctl) > 1
  /\ stack' = WithCtl(SubSeq(Top.ctl, 1, Len(Top.ctl) - 1))
  /\ ev' = NoEv
  /\ UNCHANGED <<tokens, phase, program, regs, recipes, envs, out, consumed, err>>

\* MakeStmt.eval, lines 102-105: the lookup in env['__recipes__']
Lookup(recs, name, tab) ==
  CASE recs.t = "tab" ->
         IF name \in DOMAIN tab
         THEN [ok |-> TRUE, params |-> tab[name].params, body |-> tab[name].body, err |-> ""]
         ELSE [ok |-> FALSE, params |-> <<>>, body |-> <<>>, err |-> "RecipeNotFound"]
    [] recs.t = "str" ->
         [ok |-> FALSE, params |-> <<>>, body |-> <<>>,
          err |-> IF IsSubstr(NameChars(name), recs.c) THEN "TypeError" ELSE "RecipeNotFound"]
    [] OTHER -> [ok |-> FALSE, params |-> <<>>, body |-> <<>>, err |-> "TypeError"]

\* lines 108-110: local = {'__recipes__': recipes}, then each parameter in
\* turn bound to its argument evaluated in the caller's env
RECURSIVE Bind(_, _, _, _, _)
Bind(params, args, env, local, tab) ==
  IF params = <<>> THEN [ok |-> TRUE, local |-> local, err |-> ""]
  ELSE LET r == Eval(Head(args), env, tab) IN
       IF r.ok THEN Bind(Tail(params), Tail(args), env, Store(local, Head(params), r.v), tab)
       ELSE [ok |-> FALSE, local |-> local, err |-> r.err]

\* line 111: the dict the body's statements are evaluated against
BodyEnvOfCaller(caller, local) == caller
BodyEnv(caller, local) == local

MakeEv(outcome) ==
  [k |-> "make", name |-> CurStmt.name, nargs |-> Len(CurStmt.args),
   depth |-> Len(stack), outcome |-> outcome]

DoMake ==
  /\ AtStmt /\ CurStmt.k = "MakeStmt"
  /\ LET f == Lookup(Env["__recipes__"], CurStmt.name, recipes) IN
     IF ~f.ok THEN Abort(f.err, MakeEv(f.err))
     ELSE IF Len(f.params) # Len(CurStmt.args) THEN Abort("ArityMismatch", MakeEv("ArityMismatch"))
     ELSE LET b == Bind(f.params, CurStmt.args, Env,
                        ("__recipes__" :> Env["__recipes__"]), recipes) IN
          IF ~b.ok THEN Abort(b.err, MakeEv(b.err))
          ELSE IF Len(stack) > MaxDepth THEN Abort("RecursionError", MakeEv("RecursionError"))
          ELSE /\ envs' = Append(envs, b.local)
               /\ stack' = Append(WithCtl(Advanced),
                                  Frame(BodyEnv(Top.env, Len(envs) + 1), f.body, Env))
               /\ ev' = [MakeEv("call") EXCEPT !.depth = Len(stack)] @@
                          [params |-> f.params, args |-> CurStmt.args, caller |-> Env]
               /\ UNCHANGED <<tokens, phase, program, regs, recipes, out, consumed, err>>

\* the body is exhausted: MakeStmt.eval returns and `local` is dropped
Return ==
  /\ Running /\ Len(stack) > 1
  /\ Len(Top.ctl) = 1 /\ Item.k = "block" /\ Item.stmts = <<>>
  /\ stack' = SubSeq(stack, 1, Len(stack) - 1)
  /\ envs' = SubSeq(envs, 1, Len(envs) - 1)
  /\ ev' = [k |-> "return", before |-> Top.saved,
            after |-> envs'[stack[Len(stack) - 1].env], local |-> envs[Len(envs)]]
  /\ UNCHANGED <<tokens, phase, program, regs, recipes, out, consumed, err>>

\* Program.eval returns
Finish ==
  /\ Running /\ Len(stack) = 1
  /\ Len(Top.ctl) = 1 /\ Item.k = "block" /\ Item.stmts = <<>>
  /\ phase' = "done"
  /\ ev' = NoEv
  /\ UNCHANGED <<tokens, program, regs, recipes, envs, stack, out, consumed, err>>

Next ==
  \/ Parse
  \/ ProgramEval
  \/ RecipeDef_eval
  \/ DoDecl
  \/ DoMix
  \/ DoServe
  \/ DoAsk
  \/ DoIf
  \/ DoRepeat
  \/ LoopIter
  \/ LoopExit
  \/ BlockEnd
  \/ DoMake
  \/ Return
  \/ Finish

Spec == Init /\ [][Next]_vars

\* ------------------------------------------------------------------ properties
Range(seq) == {seq[j] : j \in 1..Len(seq)}
Max0(n) == IF n > 0 THEN n ELSE 0
Line(c) == [k |-> "line", text |-> c]

\* the recipe definitions of the source text, by name (the last one of a name)
Declared(name) == \E j \in 1..Len(program.recipes) : program.recipes[j].name = name
DeclaredParams(name) ==
  LET js == {j \in 1..Len(program.recipes) : program.recipes[j].name = name}
      last == CHOOSE j \in js : \A q \in js : q <= j IN
  program.recipes[last].params

\* the mapping the pre-pass builds from the recipe definitions, in source order
RECURSIVE Registered(_, _)
Registered(defs, tab) ==
  IF defs = <<>> THEN tab
  ELSE Registered(Tail(defs),
                  Store(tab, Head(defs).name, [params |-> Head(defs).params, body |-> Head(defs).body]))

\* item occurs in the token stream
Contains(toks, item) ==
  \E j \in 0..(Len(toks) - Len(item)) : SubSeq(toks, j + 1, j + Len(item)) = item

\* `make name` stands before `recipe name` in the source text
MakePrecedesRecipe(name) ==
  \E p, q \in 1..(Len(tokens) - 1) :
    /\ p < q
    /\ tokens[p].type = "ID" /\ Lower(tokens[p].s) = "make" /\ tokens[p + 1].s = name
    /\ tokens[q].type = "ID" /\ Lower(tokens[q].s) = "recipe" /\ tokens[q + 1].s = name

\* C1: frame isolation.  While a recipe body runs, and when its call has
\* returned, the caller's environment binds the same names to the same values
\* as at the moment of the make, whatever the body declared or assigned.
C1_FrameIsolation ==
  /\ \A d \in 2..Len(stack) : envs[stack[d - 1].env] = stack[d].saved
  /\ ev.k = "return" => ev.after = ev.before

\* a call has returned whose body bound a caller's name to another value
C1_Witness ==
  /\ ev.k = "return"
  /\ \E n \in (DOMAIN ev.before \cap DOMAIN ev.local) \ {"__recipes__"} :
       ev.local[n] # ev.before[n]

\* C2: a make whose argument count differs from the parameter count declared
\* for the named recipe raises ArityMismatch, with no output, no input read
\* and no environment changed.
C2_ArityMismatchRaised ==
  [][(AtStmt /\ CurStmt.k = "MakeStmt" /\ Declared(CurStmt.name)
        /\ Len(DeclaredParams(CurStmt.name)) # Len(CurStmt.args))
       => (err' = "ArityMismatch" /\ out' = out /\ consumed' = consumed /\ envs' = envs)]_vars

\* C3: every recipe definition is registered before the first top-level
\* statement runs, so a top-level make that stands before the recipe's
\* definition does not raise RecipeNotFound.
C3_ForwardReferenceFound ==
  /\ (phase = "run" /\ regs = <<>>) =>
       \A j \in 1..Len(program.recipes) : program.recipes[j].name \in DOMAIN recipes
  /\ (ev.k = "make" /\ ev.depth = 1 /\ Declared(ev.name) /\ MakePrecedesRecipe(ev.name))
       => ev.outcome # "RecipeNotFound"

\* C4: the read `serve <name>` is about to make raises UndefinedVariable when
\* the name is absent or holds the sentinel, and yields a value only when the
\* name is bound to an int or a str.
C4_ReadIsIntOrStr ==
  (AtStmt /\ CurStmt.k = "ServeStmt" /\ CurStmt.expr.k = "Var") =>
    LET n == CurStmt.expr.n
        r == Var_eval(n, Env) IN
    /\ (n \notin DOMAIN Env \/ Env[n] = NoneV) => r = Err("UndefinedVariable")
    /\ r.ok => (r.v.t \in {"int", "str"} /\ r.v = Env[n])

\* C5: a repeat with integer bounds lo and hi runs its body once per integer
\* lo, lo+1, ..., hi in that order with env['i'] bound to it when the body
\* starts, and not at all when lo > hi; `repeat 1 to 3 { serve i; }` emits
\* 1, 2, 3 and `repeat 5 to 1 { serve i; }` emits nothing.
C5_RepeatInclusiveAscending ==
  /\ \A d \in 1..Len(stack) : \A j \in 1..Len(stack[d].ctl) :
       LET it == stack[d].ctl[j] IN
       it.k = "loop" =>
         /\ Len(it.iters) <= Max0(it.hi - it.lo + 1)
         /\ \A q \in 1..Len(it.iters) : it.iters[q] = IntV(it.lo + q - 1)
  /\ ev.k = "iter" => (Env["i"] = IntV(ev.idx) /\ Item.k = "block"
                         /\ Item.stmts = Top.ctl[Len(Top.ctl) - 1].stmts)
  /\ ev.k = "loopexit" =>
       /\ Len(ev.iters) = Max0(ev.hi - ev.lo + 1)
       /\ \A q \in 1..Len(ev.iters) : ev.iters[q] = IntV(ev.lo + q - 1)
  /\ (phase = "done" /\ tokens = S_repeat \o <<EOF>>) =>
       out = <<Line(<<"1">>), Line(<<"2">>), Line(<<"3">>)>>
  /\ (phase = "done" /\ tokens = S_repeat_down \o <<EOF>>) => out = <<>>

\* a repeat has run to its end over three integers
C5_Witness == ev.k = "loopexit" /\ Len(ev.iters) = 3 /\ ev.lo < ev.hi

\* C6: a token stream with an identifier other than the keyword where the
\* into of mix/ask, the to of repeat or the then of if belongs fails with a
\* ParseError and yields no Program.
C6_WrongKeywordRejected ==
  (\E w \in WrongKeyword : Contains(tokens, w)) =>
    \/ phase = "parse"
    \/ phase = "aborted" /\ err = "ParseError" /\ program = NoProgram

\* C7: an if runs its then block iff the condition's value is not the int 0;
\* only the int 0 selects the else block (or nothing without one).
C7_TruthyIffNotZero ==
  ev.k = "if" =>
    /\ ev.branch = "then" <=> ev.v # IntV(0)
    /\ ev.v = IntV(0) => ev.branch = (IF ev.hasElse THEN "else" ELSE "none")

\* C8: once the pre-pass is over, the table every frame's make consults is
\* the mapping the pre-pass built, and no statement replaces or shadows it.
C8_TableFixed ==
  (phase \in {"run", "done", "aborted"} /\ regs = <<>> /\ envs # <<>>) =>
    /\ recipes = Registered(program.recipes, EmptyDict)
    /\ \A e \in 1..Len(envs) : envs[e]["__recipes__"] = TabV

\* C9: when the first statement of a recipe body is about to run, the names
\* readable in the frame are exactly the parameters, each bound to its
\* argument's value in the caller's environment, and any other name bound in
\* the caller's environment is undefined in the frame.
C9_FrameHoldsOnlyParams ==
  (ev.k = "make" /\ ev.outcome = "call") =>
    LET names == DOMAIN Env \cup DOMAIN ev.caller \cup Range(ev.params) IN
    /\ {n \in names : Var_eval(n, Env).ok} = Range(ev.params)
    /\ \A j \in 1..Len(ev.params) :
         Val(Env[ev.params[j]]) = Eval(ev.args[j], ev.caller, recipes)
    /\ \A n \in DOMAIN ev.caller \ Range(ev.params) :
         Var_eval(n, Env) = Err("UndefinedVariable")

\* C10: the bounds of a repeat are evaluated once, before the first turn:
\* when the body assigned `i` or changed what the end expression evaluates
\* to, the loop still made max(0, hi - lo + 1) turns and rebound `i` to
\* lo, lo+1, ..., hi at the start of the successive turns.
C10_RepeatIgnoresBody ==
  /\ (ev.k = "loopexit" /\ (ev.dirty \/ ev.endNow # Val(IntV(ev.hi)))) =>
       ev.iters = [q \in 1..Max0(ev.hi - ev.lo + 1) |-> IntV(ev.lo + q - 1)]
  /\ ev.k = "iter" =>
       LET loop == Top.ctl[Len(Top.ctl) - 1] IN
       /\ loop.nxt = loop.lo + Len(loop.iters)
       /\ Env["i"] = IntV(loop.lo + Len(loop.iters) - 1)

\* a repeat ran to its end although its body assigned `i` and changed the
\* variable its end expression reads
C10_Witness ==
  /\ ev.k = "loopexit" /\ ev.dirty /\ ev.endNow # Val(IntV(ev.hi))
  /\ Len(ev.iters) >= 2
====
